---------------------------- MODULE Spec2Model ----------------------------
(***************************************************************************)
(* Florida Bird Quest (src/app/page.tsx): the Page component's state, its  *)
(* event handlers and its derived values, as a state machine.              *)
(*                                                                         *)
(* Conventions.  A JavaScript string is a sequence of one-character        *)
(* strings, so that its length and its characters can be read.  An         *)
(* optional value (a field that may be undefined) is a sequence of length  *)
(* 0 or 1: Undefined == <<>>.  An array element is named by its position   *)
(* in the array, which is what a JavaScript object reference is: two       *)
(* catalog entries with equal fields are still two entries.                *)
(***************************************************************************)
EXTENDS Integers, Sequences, FiniteSets, TLC

VARIABLES
    species,         \* useState<Species[]>: the catalog
    loadingSpecies,  \* useState(true): the loading flag
    user,            \* useState<Record<string, UserSpecies>>: id -> annotation
    logs,            \* useState<LogEntry[]>: newest first
    challenge,       \* useState<ChallengeState>
    filters,         \* useState({targetsOnly, month})
    todaysPicks,     \* the useMemo value: positions in species, in pick order
    picksAt,         \* the instant at which the memo was last computed
    now,             \* the wall clock, in hours since EpochDay 00:00 UTC
    q,               \* useState(""): the search box of the list
    form,            \* LogForm's useState: the speciesName and location fields
    store,           \* localStorage: the entries of LS_KEY, LS_LOGS, LS_CHALLENGE
    storageFull,     \* localStorage.setItem throws (the quota is used up)
    crashed,         \* an effect threw: React has taken the page down
    boot             \* where the startup of the page stands

vars == <<species, loadingSpecies, user, logs, challenge, filters,
          todaysPicks, picksAt, now, q, form, store, storageFull, crashed, boot>>

(***************************************************************************)
(* Bounds of the model.                                                    *)
(***************************************************************************)
MaxTouched == 2    \* the user clicks rows of the last MaxTouched catalog entries
ExtraSpecies == 1  \* the large catalog holds CAP + ExtraSpecies species
MaxLogs == 2       \* log entries accepted in one run
StartHour == 14    \* the page is opened at StartHour:00 UTC of the epoch day
ClockStep == 12    \* hours between two observations of the clock
MaxTicks == 1      \* observations of the clock after the first
EpochDay == 2      \* day of November 2026 on which the run starts
HoursWest == 5     \* the browser's time zone, hours behind UTC (US Eastern)

(***************************************************************************)
(* Program constants.                                                      *)
(***************************************************************************)
CAP == 100         \* completedIds.length < 100
MaxPicks == 5      \* shuffled.slice(0, 5)

Undefined == <<>>

Range(s) == {s[i] : i \in DOMAIN s}

months == <<"Jan", "Feb", "Mar", "Apr", "May", "Jun",
            "Jul", "Aug", "Sep", "Oct", "Nov", "Dec">>

(***************************************************************************)
(* Strings.                                                                *)
(***************************************************************************)
UpperCase == <<"A", "B", "C", "D", "E", "F", "G", "H", "I", "J", "K", "L", "M",
               "N", "O", "P", "Q", "R", "S", "T", "U", "V", "W", "X", "Y", "Z">>
LowerCase == <<"a", "b", "c", "d", "e", "f", "g", "h", "i", "j", "k", "l", "m",
               "n", "o", "p", "q", "r", "s", "t", "u", "v", "w", "x", "y", "z">>
Digits == <<"0", "1", "2", "3", "4", "5", "6", "7", "8", "9">>

\* String.prototype.toLowerCase, one character
lowerChar(c) ==
    IF \E k \in DOMAIN UpperCase : UpperCase[k] = c
    THEN LowerCase[CHOOSE k \in DOMAIN UpperCase : UpperCase[k] = c]
    ELSE c

toLowerCase(s) == [i \in DOMAIN s |-> lowerChar(s[i])]

\* the character class [a-z0-9]
isSlugChar(c) == c \in Range(LowerCase) \cup Range(Digits)

\* .replace(/[^a-z0-9]+/g, "-"): every maximal run of other characters
\* becomes one "-"
RECURSIVE collapseRuns(_, _)
collapseRuns(s, inRun) ==
    IF s = <<>> THEN <<>>
    ELSE IF isSlugChar(Head(s)) THEN <<Head(s)>> \o collapseRuns(Tail(s), FALSE)
    ELSE IF inRun THEN collapseRuns(Tail(s), TRUE)
    ELSE <<"-">> \o collapseRuns(Tail(s), TRUE)

\* .replace(/(^-|-$)/g, ""): one leading and one trailing "-" are removed
stripEdgeDashes(s) ==
    LET a == IF s # <<>> /\ Head(s) = "-" THEN Tail(s) ELSE s
    IN  IF a # <<>> /\ a[Len(a)] = "-" THEN SubSeq(a, 1, Len(a) - 1) ELSE a

slugify(s) == stripEdgeDashes(collapseRuns(toLowerCase(s), FALSE))


(***************************************************************************)
(* The fetched data.  /data/florida_birds.json is not part of the          *)
(* repository: the model draws the response from these lists.              *)
(***************************************************************************)
AllYear == [m \in Range(months) |-> TRUE]

\* the fallback entry of the catch branch
SnailKite ==
    [id     |-> <<"s", "n", "a", "i", "l", "-", "k", "i", "t", "e">>,
     common |-> <<"S", "n", "a", "i", "l", " ", "K", "i", "t", "e">>,
     sci    |-> <<"R", "o", "s", "t", "r", "h", "a", "m", "u", "s", " ", "s", "o", "c", "i", "a", "b", "i", "l", "i", "s">>,
     family |-> <<"A", "c", "c", "i", "p", "i", "t", "r", "i", "d", "a", "e">>,
     habitat|-> <<"M", "a", "r", "s", "h">>,
     months |-> <<AllYear>>]

WoodStork ==
    [id     |-> <<"w", "o", "s", "t">>,
     common |-> <<"W", "o", "o", "d", " ", "S", "t", "o", "r", "k">>,
     sci    |-> <<"M", "y", "c", "t", "e", "r", "i", "a", " ", "a", "m", "e", "r", "i", "c", "a", "n", "a">>,
     family |-> <<>>,
     habitat|-> <<"S", "w", "a", "m", "p">>,
     months |-> <<[m \in {"Jul"} |-> TRUE]>>]

Limpkin ==
    [id     |-> <<"l", "i", "m", "p", "k", "n">>,
     common |-> <<"L", "i", "m", "p", "k", "i", "n">>,
     sci    |-> <<>>,
     family |-> <<"A", "r", "a", "m", "i", "d", "a", "e">>,
     habitat|-> <<"M", "a", "r", "s", "h">>,
     months |-> Undefined]

\* no id supplied; its slug is the id of SnailKite
SnailKiteAgain ==
    [id     |-> <<>>,
     common |-> <<"S", "n", "a", "i", "l", " ", "K", "i", "t", "e", "!">>,
     sci    |-> <<>>,
     family |-> <<>>,
     habitat|-> <<>>,
     months |-> Undefined]

BarredOwl ==
    [id     |-> <<>>,
     common |-> <<"B", "a", "r", "r", "e", "d", " ", "O", "w", "l">>,
     sci    |-> <<"S", "t", "r", "i", "x", " ", "v", "a", "r", "i", "a">>,
     family |-> <<"S", "t", "r", "i", "g", "i", "d", "a", "e">>,
     habitat|-> <<>>,
     months |-> <<[m \in {"Jul", "Nov"} |-> m = "Nov"]>>]

\* an entry with an id and no common name
Nameless ==
    [id     |-> <<"x">>,
     sci    |-> <<>>,
     family |-> <<>>,
     habitat|-> <<>>,
     months |-> Undefined]

\* an entry with neither
Anonymous ==
    [id     |-> <<>>,
     sci    |-> <<>>,
     family |-> <<>>,
     habitat|-> <<>>,
     months |-> Undefined]

DataA == <<WoodStork, Limpkin, SnailKite>>
DataB == <<SnailKite, SnailKiteAgain, BarredOwl>>
DataC == <<SnailKite, Limpkin, BarredOwl>>

ThreeDigits(k) ==
    <<Digits[((k \div 100) % 10) + 1], Digits[((k \div 10) % 10) + 1], Digits[(k % 10) + 1]>>

\* the k-th entry of a checklist long enough to fill the challenge
BirdN(k) ==
    [id     |-> IF k % 2 = 1 THEN <<"b">> \o ThreeDigits(k) ELSE <<>>,
     common |-> <<"B", "i", "r", "d", " ">> \o ThreeDigits(k),
     sci    |-> <<>>,
     family |-> <<>>,
     habitat|-> <<>>,
     months |-> CASE k % 3 = 0 -> <<[m \in {"Nov"} |-> TRUE]>>
                  [] k % 3 = 1 -> Undefined
                  [] OTHER     -> <<[m \in {"Jul", "Nov"} |-> m = "Jul"]>>]

BigData == [k \in 1..(CAP + ExtraSpecies) |-> BirdN(k)]

FetchedData == {DataA, DataB}
MonthChoices == {"Jul", "Nov"}

\* data.map((s) => ({ ...s, id: s.id || slugify(s.common) }))
normalized(data) ==
    [i \in DOMAIN data |->
        [data[i] EXCEPT !.id = IF data[i].id # <<>> THEN data[i].id
                               ELSE slugify(data[i].common)]]

Fallback == <<SnailKite>>

\* slugify(undefined) throws: s.toLowerCase is read of undefined
throwsOnMap(data) ==
    \E i \in DOMAIN data : data[i].id = <<>> /\ "common" \notin DOMAIN data[i]

\* try { ... setSpecies(normalized) } catch { setSpecies(fallback) }, given
\* the array that res.json() returned
loaded(data) == IF throwsOnMap(data) THEN Fallback ELSE normalized(data)

(***************************************************************************)
(* The clock.  new Date() is the instant `now`; toISOString() renders it   *)
(* in UTC, toLocaleString() in the browser's zone.  Every instant of the   *)
(* model lies in November 2026.                                            *)
(***************************************************************************)
utcDayOfMonth(t) == EpochDay + (t \div 24)
localDayOfMonth(t) == EpochDay + ((t - HoursWest) \div 24)

\* new Date().toISOString().slice(0, 10)
isoDate(t) ==
    LET d == utcDayOfMonth(t)
    IN  <<"2", "0", "2", "6", "-", "1", "1", "-",
          Digits[((d \div 10) % 10) + 1], Digits[(d % 10) + 1]>>

\* new Date().toLocaleString("en-US", { month: "short" })
localMonth(t) == months[11]

(***************************************************************************)
(* Unsigned 32-bit integers, as two 16-bit halves <<hi, lo>>.              *)
(***************************************************************************)
Half == 65536

\* String.prototype.charCodeAt, for the characters of a date
charCodeAt(c) ==
    IF c = "-" THEN 45
    ELSE 47 + (CHOOSE k \in DOMAIN Digits : Digits[k] = c)

\* (h * 31 + c) >>> 0
hashStep(h, c) ==
    LET t == (h[2] * 31) + c
    IN  <<((h[1] * 31) + (t \div Half)) % Half, t % Half>>

RECURSIVE hashFrom(_, _)
hashFrom(h, s) ==
    IF s = <<>> THEN h ELSE hashFrom(hashStep(h, charCodeAt(Head(s))), Tail(s))

\* let h = 0; for (...) h = (h * 31 + seedStr.charCodeAt(i)) >>> 0
dayHash(seedStr) == hashFrom(<<0, 0>>, seedStr)

RECURSIVE BitXor(_, _)
BitXor(a, b) ==
    IF a = 0 THEN b
    ELSE IF b = 0 THEN a
    ELSE (((a % 2) + (b % 2)) % 2) + 2 * BitXor(a \div 2, b \div 2)

\* (h ^ a.id.length ^ a.common.length) >>> 0; the lengths are below 2^16
sortKey(h, s) == <<h[1], BitXor(BitXor(h[2], Len(s.id)), Len(s.common))>>

\* the sign of ha - hb
compareKeys(ha, hb) ==
    IF ha[1] # hb[1] THEN (IF ha[1] < hb[1] THEN -1 ELSE 1)
    ELSE IF ha[2] # hb[2] THEN (IF ha[2] < hb[2] THEN -1 ELSE 1)
    ELSE 0

(***************************************************************************)
(* Array.prototype.sort is stable: the elements come out in ascending      *)
(* order of their keys, and elements that compare equal keep their order.  *)
(* `key` maps a position to its sort key.  The result is built key by key: *)
(* the elements with the least key, in their order, then the rest.         *)
(***************************************************************************)
leastKey(keys) == CHOOSE k \in keys : \A other \in keys : compareKeys(k, other) <= 0

RECURSIVE sortByKeys(_, _, _)
sortByKeys(pool, key, keys) ==
    IF keys = {} THEN <<>>
    ELSE LET k == leastKey(keys)
         IN  SelectSeq(pool, LAMBDA i : key[i] = k) \o sortByKeys(pool, key, keys \ {k})

Reverse(s) == [k \in 1..Len(s) |-> s[Len(s) + 1 - k]]

\* a sort that turns the order of equal elements around
sortUnstable(pool, key) ==
    IF Len(pool) < 2 THEN pool
    ELSE sortByKeys(Reverse(pool), key, {key[i] : i \in Range(pool)})

\* the comparator is not called on an array of fewer than two elements
sort(pool, key) ==
    IF Len(pool) < 2 THEN pool
    ELSE sortByKeys(pool, key, {key[i] : i \in Range(pool)})

\* slice that keeps the whole array
sliceKeepingAll(s, n) == s

\* shuffled.slice(0, 5)
slice(s, n) == SubSeq(s, 1, IF Len(s) < n THEN Len(s) ELSE n)

\* completedIds.includes(id)
includes(ids, id) == id \in Range(ids)

\* s.months ? !!s.months[month] : true
inMonthOrUnknown(s, month) ==
    IF s.months # Undefined
    THEN month \in DOMAIN s.months[1] /\ s.months[1][month]
    ELSE TRUE

positions(sp) == [i \in 1..Len(sp) |-> i]

\* the catalog with nothing taken out
remainingOfAll(sp, completedIds) == positions(sp)

\* const remaining = species.filter((s) => !challenge.completedIds.includes(s.id))
remainingOf(sp, completedIds) ==
    LET completed == Range(completedIds)
    IN  SelectSeq(positions(sp), LAMBDA i : sp[i].id \notin completed)

\* the pool without the narrowing to the selected month
poolOfAnyMonth(sp, completedIds, month) == remainingOf(sp, completedIds)

\* const inMonth = remaining.filter(...); const pool = inMonth.length ? inMonth : remaining
poolOf(sp, completedIds, month) ==
    LET remaining == remainingOf(sp, completedIds)
        inMonth   == SelectSeq(remaining, LAMBDA i : inMonthOrUnknown(sp[i], month))
    IN  IF Len(inMonth) # 0 THEN inMonth ELSE remaining

\* the body of the todaysPicks memo, run at instant t
computePicks(sp, completedIds, month, t) ==
    LET pool == poolOf(sp, completedIds, month)
        h    == dayHash(isoDate(t))
        key  == [i \in Range(pool) |-> sortKey(h, sp[i])]
    IN  slice(sort(pool, key), MaxPicks)


(***************************************************************************)
(* The annotation map: a Record<string, UserSpecies>, a function from the  *)
(* ids that have a row to their rows.  The empty object {} is <<>>.        *)
(***************************************************************************)
hasRow(u, id) == id \in DOMAIN u

rowOf(u, id) == u[id]

\* user[id] || { id, seen: false, target: false }
ensureUserRow(u, id) ==
    IF hasRow(u, id) THEN rowOf(u, id) ELSE [id |-> id, seen |-> FALSE, target |-> FALSE]

\* { ...prev, [id]: row }
withRow(u, id, row) ==
    [key \in (DOMAIN u) \cup {id} |-> IF key = id THEN row ELSE u[key]]

\* toggleSeen, the setUser call
toggleSeenUser(u, id) ==
    withRow(u, id, [ensureUserRow(u, id) EXCEPT !.seen = ~@])

\* a Target button that only ever sets the flag
markTargetUser(u, id) ==
    withRow(u, id, [ensureUserRow(u, id) EXCEPT !.target = TRUE])

\* toggleTarget
toggleTargetUser(u, id) ==
    withRow(u, id, [ensureUserRow(u, id) EXCEPT !.target = ~@])

\* { ...u, notes: e.target.value }: the row with its notes set
withNotes(row, text) ==
    [field \in (DOMAIN row) \cup {"notes"} |-> IF field = "notes" THEN text ELSE row[field]]

\* the Notes box of the detail card
setNotesUser(u, id, text) == withRow(u, id, withNotes(ensureUserRow(u, id), text))

\* what is typed into the Notes box
NoteTexts == {<<"o", "k">>}

(***************************************************************************)
(* The challenge.                                                          *)
(***************************************************************************)
defaultChallenge == [active |-> FALSE, startedAt |-> Undefined, completedIds |-> <<>>]

\* toggleSeen without "challenge.completedIds.length < 100"
toggleSeenNoCap(c, u, id) ==
    IF ~c.active THEN c
    ELSE LET nextSeen == ~ensureUserRow(u, id).seen
         IN  IF nextSeen /\ ~includes(c.completedIds, id)
             THEN [c EXCEPT !.completedIds = Append(@, id)]
             ELSE c

\* toggleSeen that takes the id out again when the box is unticked
toggleSeenUncounting(c, u, id) ==
    IF ~c.active THEN c
    ELSE LET nextSeen == ~ensureUserRow(u, id).seen
         IN  IF nextSeen /\ ~includes(c.completedIds, id) /\ Len(c.completedIds) < CAP
             THEN [c EXCEPT !.completedIds = Append(@, id)]
             ELSE IF ~nextSeen
             THEN [c EXCEPT !.completedIds = SelectSeq(@, LAMBDA x : x # id)]
             ELSE c

\* toggleSeen with [id, ...c.completedIds]
toggleSeenPrepending(c, u, id) ==
    IF ~c.active THEN c
    ELSE LET nextSeen == ~ensureUserRow(u, id).seen
         IN  IF nextSeen /\ ~includes(c.completedIds, id) /\ Len(c.completedIds) < CAP
             THEN [c EXCEPT !.completedIds = <<id>> \o @]
             ELSE c

\* toggleSeen without "if (!challenge.active) return"
toggleSeenWhileInactive(c, u, id) ==
    LET nextSeen == ~ensureUserRow(u, id).seen
    IN  IF nextSeen /\ ~includes(c.completedIds, id) /\ Len(c.completedIds) < CAP
        THEN [c EXCEPT !.completedIds = Append(@, id)]
        ELSE c

\* toggleSeen, from "if (!challenge.active) return" on
toggleSeenChallenge(c, u, id) ==
    IF ~c.active THEN c
    ELSE LET nextSeen == ~ensureUserRow(u, id).seen
         IN  IF nextSeen /\ ~includes(c.completedIds, id) /\ Len(c.completedIds) < CAP
             THEN [c EXCEPT !.completedIds = Append(@, id)]
             ELSE c

\* the Count button's onClick without "if (!challenge.active) return"
countClickWhileInactive(c, id) ==
    IF includes(c.completedIds, id) THEN c
    ELSE IF Len(c.completedIds) >= CAP THEN c
    ELSE [c EXCEPT !.completedIds = Append(@, id)]

\* the Count button's onClick without "if (completed) return"
countClickAgain(c, id) ==
    IF ~c.active THEN c
    ELSE IF Len(c.completedIds) >= CAP THEN c
    ELSE [c EXCEPT !.completedIds = Append(@, id)]

\* the Count button's onClick, for the entry with this id
countClick(c, id) ==
    IF ~c.active THEN c
    ELSE IF includes(c.completedIds, id) THEN c
    ELSE IF Len(c.completedIds) >= CAP THEN c
    ELSE [c EXCEPT !.completedIds = Append(@, id)]

\* startChallenge without its startedAt
startChallengeUnstamped(t) == [active |-> TRUE, startedAt |-> Undefined, completedIds |-> <<>>]

startChallenge(t) == [active |-> TRUE, startedAt |-> <<t>>, completedIds |-> <<>>]

\* resetChallenge with { ...challenge, active: false, startedAt: undefined }
resetChallengeKeeping ==
    [active |-> FALSE, startedAt |-> Undefined, completedIds |-> challenge.completedIds]

resetChallenge == [active |-> FALSE, startedAt |-> Undefined, completedIds |-> <<>>]

(***************************************************************************)
(* The log.                                                                *)
(***************************************************************************)
WhiteSpace == {" "}

\* String.prototype.trim left out
untrimmed(s) == s


RECURSIVE trimStart(_)
trimStart(s) ==
    IF s # <<>> /\ Head(s) \in WhiteSpace THEN trimStart(Tail(s)) ELSE s

RECURSIVE trimEnd(_)
trimEnd(s) ==
    IF s # <<>> /\ s[Len(s)] \in WhiteSpace THEN trimEnd(SubSeq(s, 1, Len(s) - 1)) ELSE s

\* String.prototype.trim
trim(s) == trimEnd(trimStart(s))


\* { ...entry, id: uid("log") }: uid is modelled by a counter, which is fresh
withId(entry, id) ==
    [field \in (DOMAIN entry) \cup {"id"} |-> IF field = "id" THEN id ELSE entry[field]]

\* a log that grows at its end
addLogAtEnd(prev, entry) == prev \o <<withId(entry, Len(prev) + 1)>>

\* setLogs((prev) => [{ ...entry, id: uid("log") }, ...prev])
addLog(prev, entry) == <<withId(entry, Len(prev) + 1)>> \o prev

\* what is typed into the Species and Location fields
FormTexts == {<<>>, <<" ">>, <<"O", "w", "l", " ">>}

\* LogForm: useState("") for speciesName, location and notes
emptyForm == [speciesName |-> <<>>, location |-> <<>>, notes |-> <<>>]

\* notes.trim() || undefined
orUndefined(text) == IF text = <<>> THEN Undefined ELSE <<text>>

\* the entry onSubmit hands to onAdd
entryOf(f) ==
    [speciesName |-> trim(f.speciesName),
     location    |-> trim(f.location),
     notes       |-> orUndefined(trim(f.notes))]

(***************************************************************************)
(* The filtered view: the positions of the catalog entries that pass the   *)
(* three filters, in catalog order.                                        *)
(***************************************************************************)
\* String.prototype.includes
includesText(s, t) ==
    \E k \in 0..(Len(s) - Len(t)) : SubSeq(s, k + 1, k + Len(t)) = t

\* filters.targetsOnly ? !!user[s.id]?.target : true
passesTarget(s, u, f) ==
    IF f.targetsOnly THEN hasRow(u, s.id) /\ rowOf(u, s.id).target ELSE TRUE

\* if (!m) return true; if (!s.months) return true; return !!s.months[m]
passesMonth(s, f) ==
    IF f.month = "" THEN TRUE
    ELSE IF s.months = Undefined THEN TRUE
    ELSE f.month \in DOMAIN s.months[1] /\ s.months[1][f.month]

\* a search that reads the common name alone
passesQueryByName(s, t) ==
    IF t = <<>> THEN TRUE ELSE includesText(toLowerCase(s.common), t)

\* if (!t) return true; return s.common.toLowerCase().includes(t) || ...
passesQuery(s, t) ==
    IF t = <<>> THEN TRUE
    ELSE \/ includesText(toLowerCase(s.common), t)
         \/ includesText(toLowerCase(s.sci), t)
         \/ includesText(toLowerCase(s.family), t)
         \/ includesText(toLowerCase(s.habitat), t)

\* the body of the filtered memo
filteredOf(sp, u, query, f) ==
    LET t       == toLowerCase(trim(query))
        targets == SelectSeq(positions(sp), LAMBDA i : passesTarget(sp[i], u, f))
        inMonth == SelectSeq(targets, LAMBDA i : passesMonth(sp[i], f))
    IN  SelectSeq(inMonth, LAMBDA i : passesQuery(sp[i], t))

\* Math.round of the quotient a / b of two naturals, b > 0
round(a, b) == (2 * a + b) \div (2 * b)

\* the body of the stats memo
statsOf(sp, u) ==
    LET total == Len(sp)
        seen  == Cardinality({id \in DOMAIN u : u[id].seen})
    IN  [total    |-> total,
         seen     |-> seen,
         targeted |-> Cardinality({id \in DOMAIN u : u[id].target}),
         pct      |-> IF total # 0 THEN round(seen * 100, total) ELSE 0]

\* what is typed into the search box
QueryTexts == {<<>>, <<" ">>, <<" ", "M", "a", "r">>, <<"K", "I">>,
               <<"m", "y", "c">>, <<"d", "a", "e", " ">>}

(***************************************************************************)
(* localStorage.  A JSON text is [text |-> the value it denotes]; an entry *)
(* of the store is a sequence of length 0 (getItem returns null) or 1.     *)
(* JSON.stringify leaves out a property whose value is undefined, so the   *)
(* text of a challenge that was not started has no startedAt.              *)
(***************************************************************************)
\* JSON.stringify of the annotation map and of the logs
stringify(value) == [text |-> value]

\* JSON.stringify of a ChallengeState
stringifyChallenge(c) ==
    [text |-> IF c.startedAt = Undefined
              THEN [active |-> c.active, completedIds |-> c.completedIds]
              ELSE [active |-> c.active, startedAt |-> c.startedAt[1],
                    completedIds |-> c.completedIds]]

\* JSON.parse(raw) as T, for the annotation map and the logs
parse(raw) == raw.text

\* JSON.parse(raw) as ChallengeState: a missing startedAt reads as undefined
parseChallenge(raw) ==
    [active       |-> raw.text.active,
     startedAt    |-> IF "startedAt" \in DOMAIN raw.text
                      THEN <<raw.text.startedAt>> ELSE Undefined,
     completedIds |-> raw.text.completedIds]

\* loadJSON(key, fallback), for the annotation map and the logs
loadJSON(entry, fallback) == IF entry = <<>> THEN fallback ELSE parse(entry[1])

\* loadJSON<ChallengeState>(LS_CHALLENGE, { active: false, completedIds: [] })
loadChallenge(entry) ==
    IF entry = <<>> THEN defaultChallenge ELSE parseChallenge(entry[1])

\* the three entries after saveJSON of these values
storeOf(u, l, c) ==
    [user |-> <<stringify(u)>>, logs |-> <<stringify(l)>>,
     challenge |-> <<stringifyChallenge(c)>>]

(***************************************************************************)
(* The startup of the page.  boot.pc is "load" when the first render is    *)
(* committed and its effects are to run, "persist" when the load effect    *)
(* has run and the three persist effects are to run, "rendered" when they  *)
(* have, and "up" when the values the load effect set are rendered.        *)
(* boot.pending holds the values handed to setUser, setLogs and            *)
(* setChallenge, boot.before the entries as they were when the page was    *)
(* opened, boot.rerun whether the effects were run a second time.          *)
(***************************************************************************)
Idle == [pc |-> "up", before |-> <<>>, pending |-> <<>>, rerun |-> FALSE]

\* the page is up and takes events
Interactive == ~crashed /\ boot.pc = "up"

(***************************************************************************)
(* The state after the first render and the mount effects, with nothing    *)
(* stored in the browser.                                                  *)
(***************************************************************************)
InitFresh ==
    /\ species = <<>>
    /\ loadingSpecies = TRUE
    /\ user = <<>>
    /\ logs = <<>>
    /\ challenge = defaultChallenge
    /\ filters = [targetsOnly |-> TRUE, month |-> localMonth(StartHour)]
    /\ todaysPicks = <<>>
    /\ picksAt = StartHour
    /\ now = StartHour
    /\ q = <<>>
    /\ form = emptyForm
    /\ store = storeOf(<<>>, <<>>, defaultChallenge)
    /\ storageFull = FALSE
    /\ crashed = FALSE
    /\ boot = Idle

(***************************************************************************)
(* A session in progress on the large checklist: the catalog is loaded,    *)
(* the challenge was started and the first k entries were marked seen, in  *)
(* catalog order, after one sighting was logged.  markedInOrder(k) is the  *)
(* state this leaves; MarkedStepByStep checks it against the handlers, one *)
(* toggleSeen call after the other.                                        *)
(***************************************************************************)
BigCatalog == normalized(BigData)
Marked == Len(BigCatalog) - MaxTouched

\* the sighting logged before
loggedBefore ==
    addLog(<<>>, entryOf([speciesName |-> <<"O", "w", "l", " ">>,
                          location    |-> <<"O", "w", "l">>,
                          notes       |-> <<>>]))

markedInOrder(k) ==
    [user      |-> [id \in {BigCatalog[i].id : i \in 1..k} |->
                       [id |-> id, seen |-> TRUE, target |-> FALSE]],
     challenge |-> [active |-> TRUE, startedAt |-> <<StartHour>>,
                    completedIds |-> [i \in 1..k |-> BigCatalog[i].id]]]

MarkedStepByStep ==
    /\ markedInOrder(0) = [user |-> <<>>, challenge |-> startChallenge(StartHour)]
    /\ \A k \in 1..Marked :
          LET st == markedInOrder(k - 1)
          IN  /\ toggleSeenUser(st.user, BigCatalog[k].id) = markedInOrder(k).user
              /\ toggleSeenChallenge(st.challenge, st.user, BigCatalog[k].id)
                    = markedInOrder(k).challenge

InitInProgress ==
    /\ MarkedStepByStep
    /\ species = BigCatalog
    /\ loadingSpecies = FALSE
    /\ user = markedInOrder(Marked).user
    /\ logs = loggedBefore
    /\ challenge = markedInOrder(Marked).challenge
    /\ filters = [targetsOnly |-> TRUE, month |-> localMonth(StartHour)]
    /\ todaysPicks = computePicks(BigCatalog, markedInOrder(Marked).challenge.completedIds,
                                  localMonth(StartHour), StartHour)
    /\ picksAt = StartHour
    /\ now = StartHour
    /\ q = <<>>
    /\ form = emptyForm
    /\ store = storeOf(markedInOrder(Marked).user, loggedBefore,
                       markedInOrder(Marked).challenge)
    /\ storageFull = FALSE
    /\ crashed = FALSE
    /\ boot = Idle

Init == InitFresh \/ InitInProgress

(***************************************************************************)
(* Rendering: the todaysPicks memo is recomputed when one of species,      *)
(* challenge.completedIds and filters.month is a new value.                *)
(***************************************************************************)
Render(recompute) ==
    IF recompute
    THEN /\ todaysPicks' = computePicks(species', challenge'.completedIds,
                                        filters'.month, now')
         /\ picksAt' = now'
    ELSE UNCHANGED <<todaysPicks, picksAt>>

\* persist effects that write what the handler found, not what it left
PersistStale(userSet, logsSet, challengeSet) ==
    /\ crashed' = crashed
    /\ store' = [user      |-> IF userSet THEN <<stringify(user)>> ELSE store.user,
                 logs      |-> IF logsSet THEN <<stringify(logs)>> ELSE store.logs,
                 challenge |-> IF challengeSet THEN <<stringifyChallenge(challenge)>>
                               ELSE store.challenge]

(***************************************************************************)
(* The persist effects, which run after the render that follows a handler: *)
(* useEffect(() => saveJSON(KEY, value), [value]) for each value that was  *)
(* set.  saveJSON does not catch: when setItem throws, the effect throws   *)
(* and the page is taken down.                                             *)
(***************************************************************************)
Persist(userSet, logsSet, challengeSet) ==
    IF (userSet \/ logsSet \/ challengeSet) /\ storageFull
    THEN /\ crashed' = TRUE
         /\ store' = store
    ELSE /\ crashed' = crashed
         /\ store' = [user      |-> IF userSet THEN <<stringify(user')>> ELSE store.user,
                      logs      |-> IF logsSet THEN <<stringify(logs')>> ELSE store.logs,
                      challenge |-> IF challengeSet THEN <<stringifyChallenge(challenge')>>
                                    ELSE store.challenge]

\* the rows the user clicks
Touched ==
    (IF Len(species) > MaxTouched THEN Len(species) - MaxTouched + 1 ELSE 1)..Len(species)

(***************************************************************************)
(* The catalog fetch completes.  FetchDone: the response is OK and its     *)
(* body parses to the array data.  FetchFail: the fetch rejects, or the    *)
(* response is not OK, or res.json() rejects.                              *)
(***************************************************************************)
FetchDone(data) ==
    /\ Interactive
    /\ boot' = Idle
    /\ loadingSpecies
    /\ species' = loaded(data)
    /\ loadingSpecies' = FALSE
    /\ UNCHANGED <<user, logs, challenge, filters, now, q, form, storageFull>>
    /\ Render(TRUE)
    /\ Persist(FALSE, FALSE, FALSE)

FetchFail ==
    /\ Interactive
    /\ boot' = Idle
    /\ loadingSpecies
    /\ species' = Fallback
    /\ loadingSpecies' = FALSE
    /\ UNCHANGED <<user, logs, challenge, filters, now, q, form, storageFull>>
    /\ Render(TRUE)
    /\ Persist(FALSE, FALSE, FALSE)

(***************************************************************************)
(* The Seen checkbox of entry i.                                           *)
(***************************************************************************)
ToggleSeen(i) ==
    /\ Interactive
    /\ boot' = Idle
    /\ user' = toggleSeenUser(user, species[i].id)
    /\ challenge' = toggleSeenChallenge(challenge, user, species[i].id)
    /\ UNCHANGED <<species, loadingSpecies, logs, filters, now, q, form, storageFull>>
    /\ Render(challenge'.completedIds # challenge.completedIds)
    /\ Persist(TRUE, FALSE, challenge' # challenge)

(***************************************************************************)
(* The Target button of entry i.                                           *)
(***************************************************************************)
ToggleTarget(i) ==
    /\ Interactive
    /\ boot' = Idle
    /\ user' = toggleTargetUser(user, species[i].id)
    /\ UNCHANGED <<species, loadingSpecies, logs, challenge, filters, now, q, form,
                   storageFull>>
    /\ Render(FALSE)
    /\ Persist(TRUE, FALSE, FALSE)

(***************************************************************************)
(* The Notes box of the detail card of entry i.                            *)
(***************************************************************************)
SetNotes(i, text) ==
    /\ Interactive
    /\ boot' = Idle
    /\ user' = setNotesUser(user, species[i].id, text)
    /\ UNCHANGED <<species, loadingSpecies, logs, challenge, filters, now, q, form,
                   storageFull>>
    /\ Render(FALSE)
    /\ Persist(TRUE, FALSE, FALSE)

(***************************************************************************)
(* The Count button of entry i.  The page renders the button for the       *)
(* entries of todaysPicks; the handler is modelled for every entry the     *)
(* user touches, which covers each of its guards.                          *)
(***************************************************************************)
CountClick(i) ==
    /\ Interactive
    /\ boot' = Idle
    /\ challenge' = countClick(challenge, species[i].id)
    /\ UNCHANGED <<species, loadingSpecies, user, logs, filters, now, q, form,
                   storageFull>>
    /\ Render(challenge'.completedIds # challenge.completedIds)
    /\ Persist(FALSE, FALSE, challenge' # challenge)

(***************************************************************************)
(* Start Challenge and Reset: setChallenge with a fresh object.  The page   *)
(* shows Start while the challenge is inactive and Reset while it is       *)
(* active; the handlers themselves test nothing and are modelled so.       *)
(***************************************************************************)
StartChallenge ==
    /\ Interactive
    /\ boot' = Idle
    /\ challenge' = startChallenge(now)
    /\ UNCHANGED <<species, loadingSpecies, user, logs, filters, now, q, form,
                   storageFull>>
    /\ Render(TRUE)
    /\ Persist(FALSE, FALSE, TRUE)

ResetChallenge ==
    /\ Interactive
    /\ boot' = Idle
    /\ challenge' = resetChallenge
    /\ UNCHANGED <<species, loadingSpecies, user, logs, filters, now, q, form,
                   storageFull>>
    /\ Render(TRUE)
    /\ Persist(FALSE, FALSE, TRUE)

(***************************************************************************)
(* The month select, the search box and the Targets/All button.            *)
(***************************************************************************)
SelectMonth(m) ==
    /\ Interactive
    /\ boot' = Idle
    /\ filters' = [filters EXCEPT !.month = m]
    /\ UNCHANGED <<species, loadingSpecies, user, logs, challenge, now, q, form,
                   storageFull>>
    /\ Render(filters'.month # filters.month)
    /\ Persist(FALSE, FALSE, FALSE)

SetQuery(text) ==
    /\ Interactive
    /\ boot' = Idle
    /\ q' = text
    /\ UNCHANGED <<species, loadingSpecies, user, logs, challenge, filters, now, form,
                   storageFull>>
    /\ Render(FALSE)
    /\ Persist(FALSE, FALSE, FALSE)

ToggleTargetsOnly ==
    /\ Interactive
    /\ boot' = Idle
    /\ filters' = [filters EXCEPT !.targetsOnly = ~@]
    /\ UNCHANGED <<species, loadingSpecies, user, logs, challenge, now, q, form,
                   storageFull>>
    /\ Render(FALSE)
    /\ Persist(FALSE, FALSE, FALSE)

(***************************************************************************)
(* The log form: its Species and Location fields, and its onSubmit.        *)
(***************************************************************************)
TypeSpeciesName(text) ==
    /\ Interactive
    /\ boot' = Idle
    /\ form' = [form EXCEPT !.speciesName = text]
    /\ UNCHANGED <<species, loadingSpecies, user, logs, challenge, filters, now, q,
                   storageFull>>
    /\ Render(FALSE)
    /\ Persist(FALSE, FALSE, FALSE)

TypeLocation(text) ==
    /\ Interactive
    /\ boot' = Idle
    /\ form' = [form EXCEPT !.location = text]
    /\ UNCHANGED <<species, loadingSpecies, user, logs, challenge, filters, now, q,
                   storageFull>>
    /\ Render(FALSE)
    /\ Persist(FALSE, FALSE, FALSE)

TypeNotes(text) ==
    /\ Interactive
    /\ boot' = Idle
    /\ form' = [form EXCEPT !.notes = text]
    /\ UNCHANGED <<species, loadingSpecies, user, logs, challenge, filters, now, q,
                   storageFull>>
    /\ Render(FALSE)
    /\ Persist(FALSE, FALSE, FALSE)

SubmitLog ==
    /\ Interactive
    /\ boot' = Idle
    /\ IF trim(form.speciesName) = <<>> \/ trim(form.location) = <<>>
       THEN /\ UNCHANGED <<logs, form>>
            /\ Persist(FALSE, FALSE, FALSE)
       ELSE /\ Len(logs) < MaxLogs
            /\ logs' = addLog(logs, entryOf(form))
            /\ form' = emptyForm
            /\ Persist(FALSE, TRUE, FALSE)
    /\ UNCHANGED <<species, loadingSpecies, user, challenge, filters, now, q,
                   storageFull>>
    /\ Render(FALSE)

(***************************************************************************)
(* The page is loaded again: every useState starts over, the load effect   *)
(* reads the three entries, and the persist effects write the loaded       *)
(* values back.                                                            *)
(***************************************************************************)
Reload ==
    /\ species' = <<>>
    /\ loadingSpecies' = TRUE
    /\ user' = loadJSON(store.user, <<>>)
    /\ logs' = loadJSON(store.logs, <<>>)
    /\ challenge' = loadChallenge(store.challenge)
    /\ filters' = [targetsOnly |-> TRUE, month |-> localMonth(now)]
    /\ q' = <<>>
    /\ form' = emptyForm
    /\ crashed' = storageFull
    /\ store' = IF storageFull THEN store ELSE storeOf(user', logs', challenge')
    /\ boot' = Idle
    /\ UNCHANGED <<now, storageFull>>
    /\ Render(TRUE)

(***************************************************************************)
(* The same startup, effect by effect.  Open: the page is requested and    *)
(* its first render is committed, with every useState at its initial       *)
(* value.  LoadEffect: the effect of lines 255-262 reads the three entries *)
(* and hands what it read to the setters; the values are rendered later.   *)
(* PersistEffects: the effects of lines 265-267 write the values of the    *)
(* committed render.  RerunEffects: React runs the effects of the mount a  *)
(* second time (StrictMode).  Rerender: the values last handed to the      *)
(* setters are rendered, and the persist effects write them.               *)
(***************************************************************************)
Open ==
    /\ boot.pc = "up"
    /\ species' = <<>>
    /\ loadingSpecies' = TRUE
    /\ user' = <<>>
    /\ logs' = <<>>
    /\ challenge' = defaultChallenge
    /\ filters' = [targetsOnly |-> TRUE, month |-> localMonth(now)]
    /\ q' = <<>>
    /\ form' = emptyForm
    /\ crashed' = FALSE
    /\ boot' = [pc |-> "load", before |-> <<store>>, pending |-> <<>>, rerun |-> FALSE]
    /\ UNCHANGED <<now, store, storageFull>>
    /\ Render(TRUE)

LoadEffect ==
    /\ boot.pc = "load"
    /\ boot' = [boot EXCEPT !.pc = "persist",
                            !.pending = <<[user      |-> loadJSON(store.user, <<>>),
                                           logs      |-> loadJSON(store.logs, <<>>),
                                           challenge |-> loadChallenge(store.challenge)]>>]
    /\ UNCHANGED <<species, loadingSpecies, user, logs, challenge, filters,
                   todaysPicks, picksAt, now, q, form, store, storageFull, crashed>>

PersistEffects ==
    /\ boot.pc = "persist"
    /\ IF storageFull
       THEN /\ crashed' = TRUE
            /\ boot' = Idle
            /\ store' = store
       ELSE /\ crashed' = crashed
            /\ boot' = [boot EXCEPT !.pc = "rendered"]
            /\ store' = storeOf(user, logs, challenge)
    /\ UNCHANGED <<species, loadingSpecies, user, logs, challenge, filters,
                   todaysPicks, picksAt, now, q, form, storageFull>>

RerunEffects ==
    /\ boot.pc = "rendered"
    /\ ~boot.rerun
    /\ boot' = [boot EXCEPT !.pc = "load", !.rerun = TRUE]
    /\ UNCHANGED <<species, loadingSpecies, user, logs, challenge, filters,
                   todaysPicks, picksAt, now, q, form, store, storageFull, crashed>>

Rerender ==
    /\ boot.pc = "rendered"
    /\ user' = boot.pending[1].user
    /\ logs' = boot.pending[1].logs
    /\ challenge' = boot.pending[1].challenge
    /\ boot' = [boot EXCEPT !.pc = "up", !.pending = <<>>]
    /\ UNCHANGED <<species, loadingSpecies, filters, now, q, form, storageFull>>
    /\ Render(TRUE)
    /\ Persist(TRUE, TRUE, TRUE)

(***************************************************************************)
(* The environment: the storage quota runs out; time passes.               *)
(***************************************************************************)
StorageFills ==
    /\ ~storageFull
    /\ storageFull' = TRUE
    /\ UNCHANGED <<species, loadingSpecies, user, logs, challenge, filters,
                   todaysPicks, picksAt, now, q, form, store, crashed, boot>>

Tick ==
    /\ now + ClockStep <= StartHour + MaxTicks * ClockStep
    /\ now' = now + ClockStep
    /\ UNCHANGED <<species, loadingSpecies, user, logs, challenge, filters,
                   todaysPicks, picksAt, q, form, store, storageFull, crashed, boot>>

(***************************************************************************)
(* The challenge screen and the list: the catalog load and the handlers    *)
(* of the challenge, with the clock held.                                  *)
(***************************************************************************)
Next ==
    \/ \E data \in FetchedData : FetchDone(data)
    \/ FetchFail
    \/ \E i \in Touched : ToggleSeen(i)
    \/ \E i \in Touched : CountClick(i)
    \/ StartChallenge
    \/ ResetChallenge
    \/ \E m \in MonthChoices : SelectMonth(m)

Spec == Init /\ [][Next]_vars

NextDay ==
    \/ Next
    \/ Tick

\* the same, with time passing between the handlers
SpecDay == Init /\ [][NextDay]_vars

(***************************************************************************)
(* The list screen: the catalog load, the annotations, the search box and  *)
(* the two filters.  The filtered memo depends on every value it reads     *)
(* (species, q, filters, user), so the view on display is filteredOf of    *)
(* the current state.                                                      *)
(***************************************************************************)
filtered == filteredOf(species, user, q, filters)

NextView ==
    \/ \E data \in FetchedData : FetchDone(data)
    \/ FetchFail
    \/ \E i \in Touched : ToggleSeen(i)
    \/ \E i \in Touched : ToggleTarget(i)
    \/ \E i \in Touched, text \in NoteTexts : SetNotes(i, text)
    \/ \E text \in QueryTexts : SetQuery(text)
    \/ ToggleTargetsOnly
    \/ \E m \in MonthChoices : SelectMonth(m)

SpecView == InitFresh /\ [][NextView]_vars

(***************************************************************************)
(* The log screen beside the rest: the log form and its submission, the    *)
(* annotations and the challenge on the fallback catalog.  Every write to  *)
(* localStorage succeeds here.                                             *)
(***************************************************************************)
NextLog ==
    \/ FetchFail
    \/ \E i \in Touched : ToggleSeen(i)
    \/ StartChallenge
    \/ ResetChallenge
    \/ \E text \in FormTexts : TypeSpeciesName(text)
    \/ \E text \in FormTexts : TypeLocation(text)
    \/ \E text \in NoteTexts : TypeNotes(text)
    \/ SubmitLog

SpecLog == InitFresh /\ [][NextLog]_vars

(***************************************************************************)
(* The page over several visits: the catalog load, the annotations and the *)
(* challenge, the page being loaded again from what localStorage holds,    *)
(* and the storage quota running out.  The stats memo depends on           *)
(* species.length and user, which are all it reads.                        *)
(***************************************************************************)
stats == statsOf(species, user)

StoreBodies == {DataA, <<Nameless>>, <<WoodStork, Anonymous>>}

NextStore ==
    \/ \E data \in StoreBodies : FetchDone(data)
    \/ FetchFail
    \/ \E i \in Touched : ToggleSeen(i)
    \/ StartChallenge
    \/ ResetChallenge
    \/ Reload
    \/ StorageFills

SpecStore == InitFresh /\ [][NextStore]_vars

(***************************************************************************)
(* The challenge screen over the days, on catalogs whose entries differ    *)
(* in how the lengths of id and common name relate.                        *)
(***************************************************************************)
OrderBodies == {DataB, DataC}

NextOrder ==
    \/ \E data \in OrderBodies : FetchDone(data)
    \/ \E i \in Touched : ToggleSeen(i)
    \/ StartChallenge
    \/ \E m \in MonthChoices : SelectMonth(m)
    \/ Tick

SpecOrder == InitFresh /\ [][NextOrder]_vars

(***************************************************************************)
(* The page opened again and again, effect by effect, with annotations, a  *)
(* challenge and logs made in between.                                     *)
(***************************************************************************)
NextBoot ==
    \/ FetchFail
    \/ \E i \in Touched : ToggleSeen(i)
    \/ StartChallenge
    \/ \E text \in FormTexts : TypeSpeciesName(text)
    \/ \E text \in FormTexts : TypeLocation(text)
    \/ SubmitLog
    \/ Open
    \/ LoadEffect
    \/ PersistEffects
    \/ RerunEffects
    \/ Rerender

SpecBoot == InitFresh /\ [][NextBoot]_vars

(***************************************************************************)
(* Properties of the challenge.                                            *)
(***************************************************************************)

\* C1 (challenge cap): in every reachable state the completed-identifiers
\* list has at most 100 members, whatever toggles, counts, starts and resets
\* were issued.
ChallengeCap == Len(challenge.completedIds) <= CAP

\* the list is full and a species was then marked seen: it is seen, and it
\* is not in the list
SeenButRefusedAtCap ==
    /\ Len(challenge.completedIds) = CAP
    /\ \E k \in DOMAIN user :
          user[k].seen /\ ~includes(challenge.completedIds, user[k].id)

\* C2 (challenge ratchet): a step that is neither a start nor a reset, a
\* toggle of the seen flag in either direction in particular, keeps every
\* completed id at its place in the list: the list stays as it is or gets
\* one id appended at its end.
ChallengeRatchet ==
    [][(~StartChallenge /\ ~ResetChallenge) =>
          LET old == challenge.completedIds
              new == challenge'.completedIds
          IN  \/ new = old
              \/ Len(new) = Len(old) + 1 /\ SubSeq(new, 1, Len(old)) = old]_vars

\* a counted species whose seen flag is off again
CountedAndNoLongerSeen ==
    /\ challenge.active
    /\ \E k \in DOMAIN user :
          ~user[k].seen /\ includes(challenge.completedIds, user[k].id)

\* C3 (auto-count on seen): a toggle that turns a species from not seen to
\* seen while the challenge is active, the species is not in the completed
\* list and the list has fewer than 100 members, makes the species' id the
\* last element of the list and leaves the earlier elements as they were.
AutoCountOnSeen ==
    [][\A i \in DOMAIN species :
          (/\ challenge.active
           /\ Len(challenge.completedIds) < CAP
           /\ \A k \in DOMAIN challenge.completedIds :
                 challenge.completedIds[k] # species[i].id
           /\ ~ensureUserRow(user, species[i].id).seen
           /\ user' = toggleSeenUser(user, species[i].id))
          => /\ Len(challenge'.completedIds) = Len(challenge.completedIds) + 1
             /\ challenge'.completedIds[Len(challenge'.completedIds)] = species[i].id
             /\ \A k \in DOMAIN challenge.completedIds :
                   challenge'.completedIds[k] = challenge.completedIds[k]]_vars

\* the hundredth species was counted by marking it seen: it is the last of
\* the list
AutoCountedLast ==
    /\ challenge.active
    /\ Len(challenge.completedIds) = CAP
    /\ \E k \in DOMAIN user :
          /\ user[k].seen
          /\ user[k].id = challenge.completedIds[Len(challenge.completedIds)]

\* C4 (manual count is guarded): a click on Count for a species appends its
\* id to the completed list when the challenge is active, the id is not in
\* the list and the list has fewer than 100 members; in every other case
\* the challenge (active flag, start timestamp, completed list) is left
\* exactly as it was.
ManualCountGuarded ==
    [][\A i \in DOMAIN species :
          (user' = user /\ CountClick(i)) =>
             IF /\ challenge.active
                /\ \A k \in DOMAIN challenge.completedIds :
                      challenge.completedIds[k] # species[i].id
                /\ Len(challenge.completedIds) < CAP
             THEN /\ challenge'.active = challenge.active
                  /\ challenge'.startedAt = challenge.startedAt
                  /\ challenge'.completedIds
                        = challenge.completedIds \o <<species[i].id>>
             ELSE challenge' = challenge]_vars

\* a species that was counted by hand: it is in the list and the user never
\* touched its seen flag
CountedByHand ==
    \E i \in DOMAIN species :
       /\ includes(challenge.completedIds, species[i].id)
       /\ ~hasRow(user, species[i].id)

\* C5 (start and reset are unconditional): from any challenge state, Start
\* yields active = true, a start timestamp that is set and an empty completed
\* list; from any challenge state, Reset yields active = false, no start
\* timestamp and an empty completed list.  Neither changes the annotation
\* map or the logs.
StartAndResetUnconditional ==
    [][/\ StartChallenge =>
             /\ challenge'.active = TRUE
             /\ challenge'.startedAt # Undefined
             /\ challenge'.completedIds = <<>>
             /\ user' = user
             /\ logs' = logs
       /\ ResetChallenge =>
             /\ challenge'.active = FALSE
             /\ challenge'.startedAt = Undefined
             /\ challenge'.completedIds = <<>>
             /\ user' = user
             /\ logs' = logs]_vars

\* the challenge was started again on the large checklist: the list is
\* empty, and the species marked seen before are still marked
StartedOverWithAnnotationsKept ==
    /\ challenge.active
    /\ challenge.startedAt # Undefined
    /\ challenge.completedIds = <<>>
    /\ species = BigCatalog
    /\ \A i \in 1..Marked : hasRow(user, species[i].id) /\ rowOf(user, species[i].id).seen

\* C6 (no duplicates): in every reachable state no species id occurs twice
\* in the completed-identifiers list.
NoDuplicateCompleted ==
    \A j, k \in DOMAIN challenge.completedIds :
       j # k => challenge.completedIds[j] # challenge.completedIds[k]

\* two catalog entries carry one id, that id is counted, and the species is
\* marked seen
SharedIdCountedOnce ==
    /\ \E i, j \in DOMAIN species : i # j /\ species[i].id = species[j].id
                                    /\ includes(challenge.completedIds, species[i].id)
                                    /\ hasRow(user, species[i].id)
                                    /\ rowOf(user, species[i].id).seen
    /\ Len(challenge.completedIds) >= 2

\* C7 (toggle while inactive): a toggle of a seen flag while the challenge
\* is inactive leaves the active flag, the start timestamp and the completed
\* list as they were.
ToggleWhileInactive ==
    [][(~challenge.active /\ user' # user) => challenge' = challenge]_vars

\* flags were switched on and off with the challenge inactive and empty
SeenWhileInactive ==
    /\ challenge = defaultChallenge
    /\ \E k \in DOMAIN user : user[k].seen
    /\ \E k \in DOMAIN user : ~user[k].seen

(***************************************************************************)
(* Properties of the daily picks.                                          *)
(***************************************************************************)
\* step 1 of the contract: the catalog minus the species already counted
Remaining == {i \in DOMAIN species :
                 \A k \in DOMAIN challenge.completedIds :
                    challenge.completedIds[k] # species[i].id}

\* C8 (daily picks size and membership): the daily picks are at most 5 and
\* at most as many as the candidate pool holds, no catalog entry is picked twice, and
\* every pick is a catalog entry whose id is not in the completed list.
PicksBounded ==
    /\ Len(todaysPicks) <= 5
    /\ Len(todaysPicks) <= Cardinality(Remaining)
    /\ \A j, k \in DOMAIN todaysPicks : j # k => todaysPicks[j] # todaysPicks[k]
    /\ \A k \in DOMAIN todaysPicks : todaysPicks[k] \in Remaining

\* five picks out of a larger pool, with species already counted
FivePicksOfMany ==
    /\ Len(todaysPicks) = 5
    /\ Cardinality(Remaining) > 5
    /\ challenge.completedIds # <<>>

\* the entry's month map has the selected month, as true
HasMonth(i) ==
    /\ species[i].months # Undefined
    /\ filters.month \in DOMAIN species[i].months[1]
    /\ species[i].months[1][filters.month]

\* the entry carries no month map
HasNoMonths(i) == species[i].months = Undefined

\* C9 (month narrowing), as claimed: every daily pick has the selected month
\* as true in its month map, unless no remaining species has, and then the
\* picks are remaining species.
PicksOfSelectedMonth ==
    IF \E i \in Remaining : HasMonth(i)
    THEN \A k \in DOMAIN todaysPicks : HasMonth(todaysPicks[k])
    ELSE \A k \in DOMAIN todaysPicks : todaysPicks[k] \in Remaining

\* C9 (month narrowing), amended: every daily pick has the selected month as
\* true in its month map or has no month map at all, unless no remaining
\* species is of either kind, and then the picks are remaining species.
PicksOfSelectedMonthOrUnmapped ==
    IF \E i \in Remaining : HasMonth(i) \/ HasNoMonths(i)
    THEN \A k \in DOMAIN todaysPicks :
            HasMonth(todaysPicks[k]) \/ HasNoMonths(todaysPicks[k])
    ELSE \A k \in DOMAIN todaysPicks : todaysPicks[k] \in Remaining

\* the narrowing left a remaining species out, and kept one with the month
\* in its map and one without a map
NarrowedWithUnmappedPick ==
    /\ \E i \in Remaining : ~HasMonth(i) /\ ~HasNoMonths(i)
    /\ \E k \in DOMAIN todaysPicks : HasMonth(todaysPicks[k])
    /\ \E k \in DOMAIN todaysPicks : HasNoMonths(todaysPicks[k])

\* C10 (determinism on a calendar day): when the picks are computed again
\* on the calendar day of the previous computation, with the same catalog,
\* the same completed list and the same selected month, they are the same
\* species in the same order.
SamePicksOnSameDay ==
    [][(/\ species' = species
        /\ challenge'.completedIds = challenge.completedIds
        /\ filters'.month = filters.month
        /\ localDayOfMonth(picksAt') = localDayOfMonth(picksAt))
       => todaysPicks' = todaysPicks]_vars

(***************************************************************************)
(* Sensitivity of the picks.                                               *)
(***************************************************************************)
\* the original reading of C11: a step that changes the set of counted
\* species, or after which the picks on display were computed on another day
\* than those before it, changes the picks on display.
PicksSensitive ==
    [][(\/ Range(challenge'.completedIds) # Range(challenge.completedIds)
        \/ isoDate(picksAt') # isoDate(picksAt))
       => todaysPicks' # todaysPicks]_vars

\* C11 (daily picks sensitivity): when a species that is among the picks on
\* display is counted, the picks on display change and the counted species is
\* no longer among them.
CountedPickLeavesPicks ==
    [][\A k \in DOMAIN todaysPicks :
          (/\ species' = species
           /\ ~includes(challenge.completedIds, species[todaysPicks[k]].id)
           /\ includes(challenge'.completedIds, species[todaysPicks[k]].id))
          => /\ todaysPicks' # todaysPicks
             /\ \A j \in DOMAIN todaysPicks' :
                   species[todaysPicks'[j]].id # species[todaysPicks[k]].id]_vars

\* Limpkin, which every month shows, was counted and two picks are left
CountedPickGone ==
    /\ species = normalized(DataA)
    /\ challenge.active
    /\ challenge.completedIds = <<Limpkin.id>>
    /\ filters.month = "Jul"
    /\ Len(todaysPicks) = 2

(***************************************************************************)
(* Properties of the filtered view and of the annotations.                 *)
(***************************************************************************)
\* the search text as the filter reads it
Needle == toLowerCase(trim(q))

Targeted(i) == \E id \in DOMAIN user : id = species[i].id /\ user[id].target

Searched(i) ==
    \E text \in {species[i].common, species[i].sci, species[i].family,
                 species[i].habitat} :
        includesText(toLowerCase(text), Needle)

\* C12 (filtered view): the filtered view lists, in catalog order and once
\* each, exactly the catalog entries that are targets when target-only is
\* set, that have no month map or have the selected month true in it, and
\* that contain the trimmed lower-cased query, when it is not empty, in the
\* lower-cased common name, scientific name, family or habitat; with
\* target-only off, an empty query and no month the view is the catalog.
FilteredIsTheSubsequence ==
    /\ \A j, k \in DOMAIN filtered : j < k => filtered[j] < filtered[k]
    /\ Range(filtered) =
         {i \in DOMAIN species :
             /\ filters.targetsOnly => Targeted(i)
             /\ HasNoMonths(i) \/ HasMonth(i)
             /\ Needle # <<>> => Searched(i)}
    /\ filteredOf(species, user, <<>>, [targetsOnly |-> FALSE, month |-> ""])
         = positions(species)

\* a search among the targets that keeps one entry of three
SearchedAmongTargets ==
    /\ Len(species) = 3
    /\ filters.targetsOnly
    /\ Needle # <<>>
    /\ Len(filtered) = 1
    /\ \E i \in DOMAIN species : Targeted(i) /\ ~Searched(i)

(***************************************************************************)
(* Properties of the statistics.                                           *)
(***************************************************************************)
\* C13 (stats bounds), as claimed: the number of species seen is at most the
\* number of species in the catalog, the percentage seen lies between 0 and
\* 100, and it is 0 when the catalog is empty.
StatsBounded ==
    /\ stats.seen <= stats.total
    /\ stats.pct \in 0..100
    /\ species = <<>> => stats.pct = 0

(***************************************************************************)
(* Properties of the annotations.                                          *)
(***************************************************************************)
\* the ids a toggle can be given: those of the catalog and those with a row
KnownIds == {species[i].id : i \in DOMAIN species} \cup DOMAIN user

\* the two maps differ at most in one field of the row of id
SameBut(before, after, id, field) ==
    /\ DOMAIN after = (DOMAIN before) \cup {id}
    /\ \A other \in (DOMAIN before) \ {id} : after[other] = before[other]
    /\ DOMAIN after[id] = DOMAIN ensureUserRow(before, id)
    /\ \A f \in (DOMAIN after[id]) \ {field} : after[id][f] = ensureUserRow(before, id)[f]

\* C14 (toggle involution): for every id, toggling seen twice gives back the
\* seen value and toggling target twice gives back the target value, and each
\* single toggle changes nothing but its own flag: not the other flag, not
\* the other fields of the row, not the row of any other species.
TogglesAreInvolutions ==
    \A id \in KnownIds :
        LET row  == ensureUserRow(user, id)
            s1   == toggleSeenUser(user, id)
            s2   == toggleSeenUser(s1, id)
            t1   == toggleTargetUser(user, id)
            t2   == toggleTargetUser(t1, id)
        IN  /\ s1[id].seen = ~row.seen
            /\ s2[id].seen = row.seen
            /\ t1[id].target = ~row.target
            /\ t2[id].target = row.target
            /\ SameBut(user, s1, id, "seen")
            /\ SameBut(s1, s2, id, "seen")
            /\ SameBut(user, t1, id, "target")
            /\ SameBut(t1, t2, id, "target")

\* the steps of the two handlers are those of the operators
TogglesStepwise ==
    [][\A i \in DOMAIN species :
          /\ ToggleSeen(i) => SameBut(user, user', species[i].id, "seen")
          /\ ToggleTarget(i) => SameBut(user, user', species[i].id, "target")]_vars

\* a row that was toggled back to where it began, beside a row with notes
ToggledBackBesideNotes ==
    \E id, other \in DOMAIN user :
        /\ id # other
        /\ DOMAIN user[id] = {"id", "seen", "target"}
        /\ ~user[id].seen /\ ~user[id].target
        /\ "notes" \in DOMAIN user[other]
        /\ user[other].seen /\ user[other].target

(***************************************************************************)
(* Properties of the log.                                                  *)
(***************************************************************************)
\* nothing but white space, or nothing at all
Blank(text) == \A k \in DOMAIN text : text[k] = " "

\* C15 (log rejection): a submission whose species name or location is blank
\* leaves the log, the form fields and everything else as they were, and the
\* page stays up.
BlankSubmissionIsNoOp ==
    [][(SubmitLog /\ (Blank(form.speciesName) \/ Blank(form.location)))
       => /\ logs' = logs
          /\ form' = form
          /\ store' = store
          /\ ~crashed']_vars

\* the form holds notes and a location, and a species name of one space
BlankSpeciesNameTyped ==
    /\ form.speciesName = <<" ">>
    /\ ~Blank(form.location)
    /\ ~Blank(form.notes)
    /\ logs # <<>>

\* C16 (append-only log, newest first): an accepted submission makes the log
\* the new entry, with the trimmed texts of the form, followed by the log as
\* it was; no step shortens the log or changes it in any other way; and
\* every entry of the log has a species name and a location that are trimmed
\* and not empty.
LogGrowsAtFront ==
    [][/\ (SubmitLog /\ ~Blank(form.speciesName) /\ ~Blank(form.location))
          => /\ Len(logs') = Len(logs) + 1
             /\ Tail(logs') = logs
             /\ Head(logs').speciesName = trim(form.speciesName)
             /\ Head(logs').location = trim(form.location)
       /\ Len(logs') >= Len(logs)
       /\ logs' # logs => Tail(logs') = logs
       /\ \A k \in DOMAIN logs' :
             /\ ~Blank(logs'[k].speciesName)
             /\ ~Blank(logs'[k].location)
             /\ Head(logs'[k].speciesName) # " "
             /\ logs'[k].speciesName[Len(logs'[k].speciesName)] # " "
             /\ Head(logs'[k].location) # " "
             /\ logs'[k].location[Len(logs'[k].location)] # " "]_vars

\* two sightings logged, the one with notes after the one without
TwoLogged ==
    /\ Len(logs) = 2
    /\ logs[1].notes # Undefined
    /\ logs[2].notes = Undefined

(***************************************************************************)
(* Properties of the persistence.                                          *)
(***************************************************************************)
\* C17 (persistence synchronisation): after every step each of the three
\* entries holds the serialisation of the value in memory, and a step that
\* leaves a value as it was leaves its entry as it was.
StoreInStep ==
    [][/\ store'.user = <<stringify(user')>>
       /\ store'.logs = <<stringify(logs')>>
       /\ store'.challenge = <<stringifyChallenge(challenge')>>
       /\ user' = user => store'.user = store.user
       /\ logs' = logs => store'.logs = store.logs
       /\ challenge' = challenge => store'.challenge = store.challenge]_vars

\* each of the three values was changed and written
AllThreeWritten ==
    /\ user # <<>>
    /\ logs # <<>>
    /\ challenge.active /\ challenge.completedIds # <<>>
    /\ store = storeOf(user, logs, challenge)

\* C18 (write failures), as claimed: a write that fails is not propagated,
\* and the page never enters a fatal state.
WriteFailureSwallowed == ~crashed

(***************************************************************************)
(* Properties of the catalog load.                                         *)
(***************************************************************************)
\* every entry of the body has the common name a Species must have
WellFormed(data) == \A i \in DOMAIN data : "common" \in DOMAIN data[i]

OnlyCatalogAndFlag ==
    /\ ~loadingSpecies'
    /\ UNCHANGED <<user, logs, challenge, filters, q, form, store>>

\* C19 (catalog load outcome), as claimed: the fetch ends with the fetched
\* list, ids normalised, as the catalog when the body is well formed, and
\* with the one-entry fallback as the catalog when the fetch fails or the body
\* is malformed; either way the loading flag is off afterwards and nothing but
\* the catalog, the flag and the picks drawn from the catalog has changed.
CatalogLoadOutcome ==
    [][/\ \A data \in StoreBodies :
             FetchDone(data)
             => /\ species' = IF WellFormed(data) THEN normalized(data) ELSE Fallback
                /\ OnlyCatalogAndFlag
       /\ FetchFail => (species' = Fallback /\ OnlyCatalogAndFlag)]_vars

\* the lists a catalog can have been made of; none before the load
Sources == FetchedData \cup {<<>>, Fallback, BigData}

\* lower-case letters and digits, with single dashes between them only
SlugShaped(id) ==
    /\ \A k \in DOMAIN id : isSlugChar(id[k]) \/ id[k] = "-"
    /\ \A k \in DOMAIN id : id[k] = "-" => (k > 1 /\ k < Len(id) /\ id[k + 1] # "-")

\* C20 (identifier invariant), as claimed: no two entries of the catalog have
\* the same id, and the id of each entry is the one its source entry supplied
\* or else the slug of its common name, which is lower-case letters and digits
\* with single dashes between them only.
IdentifierInvariant ==
    /\ \A i, j \in DOMAIN species : i # j => species[i].id # species[j].id
    /\ \E data \in Sources :
          /\ DOMAIN data = DOMAIN species
          /\ \A i \in DOMAIN species :
                IF data[i].id # <<>> THEN species[i].id = data[i].id
                ELSE /\ species[i].id = slugify(species[i].common)
                     /\ SlugShaped(species[i].id)

(***************************************************************************)
(* The shape of the challenge.                                             *)
(***************************************************************************)
\* C21 (inactive means empty): while the challenge is inactive nothing is
\* counted and no start time is set, and while it is active a start time is
\* set.
InactiveMeansEmpty ==
    /\ ~challenge.active => (challenge.completedIds = <<>> /\ challenge.startedAt = Undefined)
    /\ challenge.active => challenge.startedAt # Undefined

\* the challenge that had ninety-nine species counted was reset, and the
\* species are still marked seen
ResetAfterCounting ==
    /\ species = BigCatalog
    /\ ~challenge.active
    /\ \A i \in 1..Marked : hasRow(user, species[i].id) /\ rowOf(user, species[i].id).seen

(***************************************************************************)
(* Properties of the startup.                                              *)
(***************************************************************************)
\* the entries of a store that was never written to by a user's action
DefaultStore == storeOf(<<>>, <<>>, defaultChallenge)

StoreKeys == {"user", "logs", "challenge"}

\* no entry that held something else when the page was opened holds the
\* default now
NotClobbered ==
    \A key \in StoreKeys :
        boot.before[1][key] # DefaultStore[key] => store[key] # DefaultStore[key]

\* the values in memory are those the entries held when the page was opened
LoadedWhatWasStored ==
    /\ user = loadJSON(boot.before[1].user, <<>>)
    /\ logs = loadJSON(boot.before[1].logs, <<>>)
    /\ challenge = loadChallenge(boot.before[1].challenge)

\* C22 (startup never clobbers stored data), as claimed: during the startup,
\* whether its effects run once or twice, no entry that held a value other
\* than the default when the page was opened holds the default; and when the
\* startup is over and the user has done nothing yet, the annotations, the
\* logs and the challenge in memory are those that were stored.
StartupKeepsStore ==
    /\ boot.pc # "up" => NotClobbered
    /\ (boot.pc = "up" /\ boot.before # <<>> /\ ~crashed) => LoadedWhatWasStored

(***************************************************************************)
(* Properties of the daily order.                                          *)
(***************************************************************************)
\* the day seed of the picks on display
Seed == dayHash(isoDate(picksAt))

SameLengths(i) == Len(species[i].id) = Len(species[i].common)

LengthXor(i) == BitXor(Len(species[i].id), Len(species[i].common))

\* the pool the picks on display were drawn from
Pool == poolOf(species, challenge.completedIds, filters.month)

\* no leading, trailing or consecutive non-alphanumerics
Clean(name) ==
    LET lower == toLowerCase(name)
    IN  \A k \in DOMAIN lower :
           isSlugChar(lower[k]) \/ (k > 1 /\ k < Len(lower) /\ isSlugChar(lower[k + 1]))

====
